---- MODULE Spec2Model ----
(***************************************************************************)
(* Model of the two primitives of the repository:                          *)
(*   - k2lib::Pool<T, SIZE>  (src/unnamed/part_000): fixed-capacity object  *)
(*     pool whose free/used state is kept in the bits of info[].            *)
(*   - the lock-free ring buffer (src/Exercise4.c): ring_buffer_init,       *)
(*     ring_buffer_put, ring_buffer_get over the static table _rb[].        *)
(***************************************************************************)
EXTENDS Integers, Sequences, FiniteSets, TLC

\* ------------------------------------------------------------------ bounds
\* Largest template argument SIZE of Pool that is explored (1..MaxSize).
MaxSize == 9
\* free_elements_cnt is an int; it is explored while it exceeds the number of
\* set info bits by at most MaxOverCount.
MaxOverCount == 1
\* Number of palloc() calls explored beyond SIZE on a pool that saw no free().
MaxExtraPalloc == 2
\* The source does not give RING_BUFFER_MAX; the table _rb has this many entries.
RING_BUFFER_MAX == 2
\* Width in bits of size_t (head, tail, n_elem) where put and get are explored.
CounterBits == 3
\* Width in bits of size_t where ring_buffer_init alone is explored.
InitBits == 5
\* Largest attr->s_elem passed to ring_buffer_init.
MaxElemSize == 2
\* Elements accepted by ring_buffer_put in one behaviour.
MaxPuts == 12
\* Calls of put and get in one behaviour of sequential use.
MaxCalls == 11
\* Largest attr->n_elem where ring_buffer_init alone is explored.
MaxInitElems == 16
\* Largest attr->n_elem where several ring buffers are used through the API.
MaxApiElems == 2
\* Elements accepted in one behaviour of that use.
MaxApiPuts == 3
\* Elements accepted in one behaviour with two producers.
MaxTwoPuts == 2
\* Elements accepted in one behaviour where progress is checked.
MaxLivePuts == 6

\* ------------------------------------------------------- program constants
BITS_IN_UINT8 == 8
\* ARRAY_SIZE(_rbmem)
RBMEM_SIZE == 8
\* sizeof(_rbmem[0]), the element size uart_init passes
RBMEM_ELEM_SIZE == 1

\* -------------------------------------------------------------- Pool state
VARIABLES
  SIZE,               \* template argument of Pool<T, SIZE>
  info,               \* uint8_t info[NO_BYTES]
  free_elements_cnt,  \* int free_elements_cnt
  allocated,          \* history: slots returned by palloc() and not freed since
  only_palloc,        \* history: no free() was called since construction
  fresh_pallocs,      \* history: palloc() calls made while only_palloc
  call                \* history: the last completed call, argument and result

poolVars == <<SIZE, info, free_elements_cnt, allocated, only_palloc,
              fresh_pallocs, call>>

\* ------------------------------------------------------- ring buffer state
VARIABLES
  size_bits,   \* width of size_t on the platform
  _rb,         \* static struct ring_buffer _rb[RING_BUFFER_MAX]
  idx,         \* static int idx of ring_buffer_init
  _rbd,        \* static rbd_t _rbd, the descriptor the UART driver holds
  _rbmem,      \* static char _rbmem[8], the caller-owned backing storage
  status,      \* status of uart_init: 0 once the ring buffer is initialised
  ctx,         \* per execution context: position in put/get, its locals, the
               \* caller's element and the returned err
  init_call,   \* history: arguments and result of the last ring_buffer_init
  putSeq,      \* history: elements accepted by ring_buffer_put, in order
  gotSeq,      \* history: elements returned by ring_buffer_get, in order
  recording,   \* history: whether completed calls are appended to log
  log          \* history: completed put/get calls, in order of return

ringVars == <<size_bits, _rb, idx, _rbd, _rbmem, status, ctx, init_call,
              putSeq, gotSeq, recording, log>>

vars == <<poolVars, ringVars>>

\* ---------------------------------------------------------- bit arithmetic
RECURSIVE Pow2R(_)
Pow2R(n) == IF n = 0 THEN 1 ELSE 2 * Pow2R(n - 1)

\* 1 << n, tabulated once for the shifts the program performs.
Pow2Table == [n \in 0..(2 * BITS_IN_UINT8) |-> Pow2R(n)]

Pow2(n) == Pow2Table[n]

\* a & b on the low `bits` bits
RECURSIVE BitAnd(_, _, _)
BitAnd(a, b, bits) ==
  IF bits = 0 THEN 0
  ELSE (IF a % 2 = 1 /\ b % 2 = 1 THEN 1 ELSE 0)
       + 2 * BitAnd(a \div 2, b \div 2, bits - 1)

\* a | b on the low `bits` bits
RECURSIVE BitOr(_, _, _)
BitOr(a, b, bits) ==
  IF bits = 0 THEN 0
  ELSE (IF a % 2 = 1 \/ b % 2 = 1 THEN 1 ELSE 0)
       + 2 * BitOr(a \div 2, b \div 2, bits - 1)

\* The 8-bit & and | as tables, computed once from the definitions above.
Bytes == 0..(Pow2(BITS_IN_UINT8) - 1)

And8 == [a \in Bytes |-> [b \in Bytes |-> BitAnd(a, b, BITS_IN_UINT8)]]

Or8 == [a \in Bytes |-> [b \in Bytes |-> BitOr(a, b, BITS_IN_UINT8)]]

\* (uint8_t) x
Uint8(x) == x % Pow2(BITS_IN_UINT8)

\* ~x for a uint8_t x, as used in  info &= ~mask
Not8(x) == Pow2(BITS_IN_UINT8) - 1 - x

\* -------------------------------------------------------------- pointers
NULL == [base |-> "null", off |-> 0]

\* &elements[i]
ElementAddr(i) == [base |-> "elements", off |-> i]

\* The pointers handed to free(): NULL, every slot address, the address one
\* past the last slot, and the address of an object outside the pool.
PointerArgs ==
  {NULL} \cup {ElementAddr(i) : i \in 0..SIZE} \cup {[base |-> "foreign", off |-> 0]}

\* ------------------------------------------------------------ Pool members
NO_BYTES == (SIZE + BITS_IN_UINT8 - 1) \div BITS_IN_UINT8

testBit(inf, bit_index) ==
  IF bit_index >= SIZE THEN FALSE
  ELSE LET byte_offset == bit_index \div BITS_IN_UINT8
           bit         == bit_index % BITS_IN_UINT8
       IN  0 # And8[inf[byte_offset]][Uint8(Pow2(bit))]

\* Mutant of setBit: the byte offset is dropped, so the bit of byte 0 is set.
setBit_byte0(inf, bit_index) ==
  IF bit_index >= SIZE THEN inf
  ELSE [inf EXCEPT ![0] = Or8[@][Uint8(Pow2(bit_index % BITS_IN_UINT8))]]

setBit(inf, bit_index) ==
  IF bit_index >= SIZE THEN inf
  ELSE LET byte_offset == bit_index \div BITS_IN_UINT8
           bit         == bit_index % BITS_IN_UINT8
       IN  [inf EXCEPT ![byte_offset] =
              Or8[@][Uint8(Pow2(bit))]]

\* Mutant of clrBit: the bit is left set.
clrBit_keeps(inf, bit_index) == inf

clrBit(inf, bit_index) ==
  IF bit_index >= SIZE THEN inf
  ELSE LET byte_offset == bit_index \div BITS_IN_UINT8
           bit         == bit_index % BITS_IN_UINT8
       IN  [inf EXCEPT ![byte_offset] =
              And8[@][Not8(Uint8(Pow2(bit)))]]

\* Mutant of pallocScan: the loop runs from the last slot down.
RECURSIVE pallocScan_down(_, _, _)
pallocScan_down(i, inf, cnt) ==
  LET k == SIZE - 1 - i IN
  IF i >= SIZE THEN [ret |-> NULL, info |-> inf, cnt |-> cnt]
  ELSE IF testBit(inf, k)
       THEN [ret |-> ElementAddr(k), info |-> clrBit(inf, k), cnt |-> cnt - 1]
       ELSE pallocScan_down(i + 1, inf, cnt)

\* The for loop of palloc(), from index i on.
RECURSIVE pallocScan(_, _, _)
pallocScan(i, inf, cnt) ==
  IF i >= SIZE THEN [ret |-> NULL, info |-> inf, cnt |-> cnt]
  ELSE IF testBit(inf, i)
       THEN [ret |-> ElementAddr(i), info |-> clrBit(inf, i), cnt |-> cnt - 1]
       ELSE pallocScan(i + 1, inf, cnt)

\* Mutant of palloc: the test for an exhausted pool is  < 0  instead of  <= 0
\* and the count is decremented before the scan.
palloc_early_dec(inf, cnt) ==
  IF cnt < 0 THEN [ret |-> NULL, info |-> inf, cnt |-> cnt]
  ELSE [pallocScan(0, inf, cnt) EXCEPT !.cnt = cnt - 1]

\* T *Pool::palloc(): the result and the new info / free_elements_cnt.
palloc(inf, cnt) ==
  IF cnt <= 0 THEN [ret |-> NULL, info |-> inf, cnt |-> cnt]
  ELSE pallocScan(0, inf, cnt)

\* The for loop of free(), from index i on; p is set to NULL on a match and
\* the loop runs on to SIZE.
RECURSIVE freeScan(_, _, _, _)
freeScan(i, p, inf, cnt) ==
  IF i >= SIZE THEN [info |-> inf, cnt |-> cnt]
  ELSE IF p = ElementAddr(i)
       THEN freeScan(i + 1, NULL, setBit(inf, i), cnt + 1)
       ELSE freeScan(i + 1, p, inf, cnt)

\* void Pool::free(T *p): the new info / free_elements_cnt.
free(p, inf, cnt) ==
  IF p = NULL THEN [info |-> inf, cnt |-> cnt]
  ELSE freeScan(0, p, inf, cnt)

\* int Pool::size()
size == free_elements_cnt

\* --------------------------------------------------------- Pool operations
\* Pool::Pool(): every byte of info is 0xFF, free_elements_cnt = SIZE.
PoolCtor(N) ==
  /\ SIZE = N
  /\ info = [i \in 0..(NO_BYTES - 1) |-> Pow2(BITS_IN_UINT8) - 1]
  /\ free_elements_cnt = SIZE
  /\ allocated = {}
  /\ only_palloc = TRUE
  /\ fresh_pallocs = 0
  /\ call = [fn |-> "Pool", arg |-> NULL, ret |-> NULL, was_allocated |-> FALSE]

\* The slot index a pointer names, or -1.
SlotOf(p) == IF p.base = "elements" /\ p.off < SIZE THEN p.off ELSE -1

Palloc ==
  /\ only_palloc => fresh_pallocs < SIZE + MaxExtraPalloc
  /\ LET r == palloc(info, free_elements_cnt) IN
       /\ info' = r.info
       /\ free_elements_cnt' = r.cnt
       /\ allocated' = IF r.ret = NULL THEN allocated
                       ELSE allocated \cup {SlotOf(r.ret)}
       /\ call' = [fn |-> "palloc", arg |-> NULL, ret |-> r.ret,
                   was_allocated |-> FALSE]
  /\ fresh_pallocs' = IF only_palloc THEN fresh_pallocs + 1 ELSE fresh_pallocs
  /\ UNCHANGED <<SIZE, only_palloc>>
  /\ UNCHANGED ringVars

Free ==
  \E p \in PointerArgs :
    LET r == free(p, info, free_elements_cnt) IN
      /\ info' = r.info
      /\ free_elements_cnt' = r.cnt
      /\ free_elements_cnt' <=
           Cardinality({i \in 0..(SIZE - 1) : testBit(info', i)}) + MaxOverCount
      /\ allocated' = allocated \ {SlotOf(p)}
      /\ call' = [fn |-> "free", arg |-> p, ret |-> NULL,
                  was_allocated |-> SlotOf(p) \in allocated]
      /\ only_palloc' = FALSE
      /\ fresh_pallocs' = 0
      /\ UNCHANGED SIZE
      /\ UNCHANGED ringVars

PoolNext == Palloc \/ Free

\* ------------------------------------------------ ring buffer: arithmetic
\* SIZE_MAX + 1 of the platform's size_t
SizeMod == Pow2(size_bits)

\* a - b on size_t (unsigned, wraps)
SizeSub(a, b) == (a - b) % SizeMod

\* v++ on a size_t
SizeInc(v) == (v + 1) % SizeMod

\* a & b on size_t
SizeAnd(a, b) == BitAnd(a, b, size_bits)

\* ----------------------------------------------- ring buffer: data types
\* Mutant of ZeroRingBuffer: the static table starts with n_elem = 1.
ZeroRingBuffer_one_elem ==
  [s_elem |-> 1, n_elem |-> 1, buf |-> [base |-> "_rbmem", off |-> 0],
   head |-> 0, tail |-> 0]

\* An entry of the zero-initialised static table _rb.
ZeroRingBuffer ==
  [s_elem |-> 0, n_elem |-> 0, buf |-> NULL, head |-> 0, tail |-> 0]

\* &_rbmem[0]
RbmemAddr == [base |-> "_rbmem", off |-> 0]

\* &_rbd
RbdAddr == [base |-> "_rbd", off |-> 0]

\* rb_attr_t
Attr(s, n, b) == [s_elem |-> s, n_elem |-> n, buffer |-> b]

\* The s bytes of the k-th payload handed to ring_buffer_put.
Element(k, s) == [i \in 1..s |-> (k + i - 1) % Pow2(BITS_IN_UINT8)]

\* char c = -1 of uart_getchar, for an element of s bytes.
Preset(s) == [i \in 1..s |-> Pow2(BITS_IN_UINT8) - 1]

Contexts == {"producer", "producer2", "consumer"}

\* A context that is not inside put or get.
IdleCtx ==
  [fn |-> "none", pc |-> "idle", rbd |-> 0, data |-> <<>>, err |-> 0,
   head |-> -1, tail |-> -1, offset |-> 0, i |-> 0]

\* ------------------------------------------------- ring buffer: functions
\* ((attr->n_elem - 1) & attr->n_elem) == 0
IsPow2Check(n) == SizeAnd(SizeSub(n, 1), n) = 0

\* Mutant of ring_buffer_init: *rbd is assigned idx on the failure path too.
ring_buffer_init_writes_rbd(rbd, attr) ==
  IF /\ idx < RING_BUFFER_MAX /\ rbd # NULL /\ attr # NULL
     /\ attr.buffer # NULL /\ attr.s_elem > 0 /\ IsPow2Check(attr.n_elem)
  THEN [err |-> 0,
        rb |-> [_rb EXCEPT ![idx] = [s_elem |-> attr.s_elem,
                                     n_elem |-> attr.n_elem,
                                     buf |-> attr.buffer,
                                     head |-> 0, tail |-> 0]],
        idx |-> idx + 1, rbd |-> idx]
  ELSE [err |-> -1, rb |-> _rb, idx |-> idx, rbd |-> idx]

\* int ring_buffer_init(rbd_t *rbd, rb_attr_t *attr): err, the new _rb and
\* idx, and the value *rbd holds afterwards (rbd points to _rbd or is NULL).
ring_buffer_init(rbd, attr) ==
  IF /\ idx < RING_BUFFER_MAX /\ rbd # NULL /\ attr # NULL
     /\ attr.buffer # NULL /\ attr.s_elem > 0
     /\ IsPow2Check(attr.n_elem)
  THEN [err |-> 0,
        rb  |-> [_rb EXCEPT ![idx] =
                   [s_elem |-> attr.s_elem, n_elem |-> attr.n_elem,
                    buf |-> attr.buffer, head |-> 0, tail |-> 0]],
        idx |-> idx + 1,
        rbd |-> idx]
  ELSE [err |-> -1, rb |-> _rb, idx |-> idx, rbd |-> _rbd]

\* Mutant of _ring_buffer_full: the buffer counts as full one element late.
_ring_buffer_full_late(head, tail, n_elem) ==
  IF SizeSub(head, tail) = SizeInc(n_elem) THEN 1 ELSE 0

\* Mutant of _ring_buffer_full: the difference is taken without wraparound.
_ring_buffer_full_nowrap(head, tail, n_elem) ==
  IF head - tail = n_elem THEN 1 ELSE 0

\* static int _ring_buffer_full(struct ring_buffer *rb), on the values read
_ring_buffer_full(head, tail, n_elem) ==
  IF SizeSub(head, tail) = n_elem THEN 1 ELSE 0

\* Mutant of _ring_buffer_empty: the test is  head < tail  instead of the
\* difference being 0.
_ring_buffer_empty_lt(head, tail) ==
  IF head < tail THEN 1 ELSE 0

\* Mutant of _ring_buffer_empty: the buffer never counts as empty.
_ring_buffer_empty_never(head, tail) == 0

\* Mutant of _ring_buffer_empty: the buffer always counts as empty.
_ring_buffer_empty_always(head, tail) == 1

\* static int _ring_buffer_empty(struct ring_buffer *rb), on the values read
_ring_buffer_empty(head, tail) ==
  IF SizeSub(head, tail) = 0 THEN 1 ELSE 0

\* Mutant of ring_offset: the mask is n_elem instead of n_elem - 1.
ring_offset_mask_n(counter, n_elem, s_elem) ==
  (SizeAnd(counter, n_elem) * s_elem) % SizeMod

\* const size_t offset = (counter & (n_elem - 1)) * s_elem
ring_offset(counter, n_elem, s_elem) ==
  (SizeAnd(counter, SizeSub(n_elem, 1)) * s_elem) % SizeMod

\* ----------------------------------------------------- history recording
LogEntry(fn, err, data) == [fn |-> fn, err |-> err, data |-> data]

Logged(entry) == log' = IF recording THEN Append(log, entry) ELSE log

PutCalls == Cardinality({k \in 1..Len(log) : log[k].fn = "put"})

\* Payloads are numbered: every put call of sequential use carries a new
\* one, a concurrent producer retries a rejected one.
NextPayload == 1 + (IF recording THEN PutCalls ELSE Len(putSeq))

\* ------------------------------------------------------- ring_buffer_init
\* A call of ring_buffer_init(rbd, attr); status is set as uart_init does.
InitCall(rbd, attr) ==
  LET r == ring_buffer_init(rbd, attr) IN
    /\ \A p \in Contexts : ctx[p].pc = "idle"
    /\ _rb' = r.rb
    /\ idx' = r.idx
    /\ _rbd' = r.rbd
    /\ init_call' = [rbd |-> rbd, attr |-> attr, idx |-> idx, err |-> r.err]
    /\ status' = IF r.err = 0 THEN 0 ELSE status
    /\ UNCHANGED <<size_bits, _rbmem, ctx, putSeq, gotSeq, recording, log>>
    /\ UNCHANGED poolVars

\* uart_init: ring_buffer_init(&_rbd, &attr) with attr over _rbmem; the
\* receive interrupt is enabled (status = 0) only if it returns 0.
UartInit ==
  /\ status # 0
  /\ \E s \in 0..MaxElemSize, n \in 0..(SizeMod - 1), b \in {NULL, RbmemAddr} :
       /\ s * n <= RBMEM_SIZE
       /\ InitCall(RbdAddr, Attr(s, n, b))

\* ring_buffer_init called with any arguments, any number of times.
AnyInit ==
  \E rbd \in {NULL, RbdAddr} :
    \E attr \in {NULL} \cup
                {Attr(s, n, b) : s \in 0..1,
                                 n \in 0..MaxInitElems,
                                 b \in {NULL, RbmemAddr}} :
      InitCall(rbd, attr)

\* -------------------------------------------------------- ring_buffer_put
\* Entry of ring_buffer_put(rbd, data): err = 0 and the test rbd < RING_BUFFER_MAX.
PutCall(p, rbd, data) ==
  /\ ctx[p].pc = "idle"
  /\ Len(putSeq) < MaxPuts
  /\ recording => Len(log) < MaxCalls
  /\ IF rbd < RING_BUFFER_MAX
     THEN /\ ctx' = [ctx EXCEPT ![p] =
                       [IdleCtx EXCEPT !.fn = "put", !.pc = "check",
                                       !.rbd = rbd, !.data = data]]
          /\ UNCHANGED log
     ELSE /\ ctx' = [ctx EXCEPT ![p] =
                       [IdleCtx EXCEPT !.fn = "put", !.rbd = rbd,
                                       !.data = data, !.err = -1]]
          /\ Logged(LogEntry("put", -1, data))
  /\ UNCHANGED <<size_bits, _rb, idx, _rbd, _rbmem, status, init_call,
                 putSeq, gotSeq, recording>>
  /\ UNCHANGED poolVars

\* rb->head and rb->tail of _ring_buffer_full / _ring_buffer_empty are two
\* volatile reads whose order the expression does not fix.
ReadHead(p) ==
  /\ ctx[p].pc = "check" /\ ctx[p].head = -1
  /\ ctx' = [ctx EXCEPT ![p].head = _rb[ctx[p].rbd].head]
  /\ UNCHANGED <<size_bits, _rb, idx, _rbd, _rbmem, status, init_call,
                 putSeq, gotSeq, recording, log>>
  /\ UNCHANGED poolVars

ReadTail(p) ==
  /\ ctx[p].pc = "check" /\ ctx[p].tail = -1
  /\ ctx' = [ctx EXCEPT ![p].tail = _rb[ctx[p].rbd].tail]
  /\ UNCHANGED <<size_bits, _rb, idx, _rbd, _rbmem, status, init_call,
                 putSeq, gotSeq, recording, log>>
  /\ UNCHANGED poolVars

\* if (... && (_ring_buffer_full(&_rb[rbd]) == 0)) { ... } else { err = -1; }
PutTest(p) ==
  /\ ctx[p].fn = "put" /\ ctx[p].pc = "check"
  /\ ctx[p].head # -1 /\ ctx[p].tail # -1
  /\ IF _ring_buffer_full(ctx[p].head, ctx[p].tail, _rb[ctx[p].rbd].n_elem) = 0
     THEN /\ ctx' = [ctx EXCEPT ![p].pc = "offset"]
          /\ UNCHANGED log
     ELSE /\ ctx' = [ctx EXCEPT ![p] =
                       [IdleCtx EXCEPT !.fn = "put", !.rbd = ctx[p].rbd,
                                       !.data = ctx[p].data, !.err = -1]]
          /\ Logged(LogEntry("put", -1, ctx[p].data))
  /\ UNCHANGED <<size_bits, _rb, idx, _rbd, _rbmem, status, init_call,
                 putSeq, gotSeq, recording>>
  /\ UNCHANGED poolVars

\* Mutant of PutOffset: put goes on to head++ without the memcpy.
PutOffset_skips_copy(p) ==
  /\ ctx[p].fn = "put" /\ ctx[p].pc = "offset"
  /\ ctx' = [ctx EXCEPT ![p].pc = "inc_rd"]
  /\ UNCHANGED <<size_bits, _rb, idx, _rbd, _rbmem, status, init_call,
                 putSeq, gotSeq, recording, log>>
  /\ UNCHANGED poolVars

\* const size_t offset = (_rb[rbd].head & (_rb[rbd].n_elem - 1)) * _rb[rbd].s_elem;
PutOffset(p) ==
  /\ ctx[p].fn = "put" /\ ctx[p].pc = "offset"
  /\ LET rb == _rb[ctx[p].rbd] IN
       ctx' = [ctx EXCEPT
                 ![p].offset = ring_offset(rb.head, rb.n_elem, rb.s_elem),
                 ![p].i = 0,
                 ![p].pc = IF rb.s_elem = 0 THEN "inc_rd" ELSE "copy"]
  /\ UNCHANGED <<size_bits, _rb, idx, _rbd, _rbmem, status, init_call,
                 putSeq, gotSeq, recording, log>>
  /\ UNCHANGED poolVars

\* memcpy(&(_rb[rbd].buf[offset]), data, _rb[rbd].s_elem), one byte a step
PutCopy(p) ==
  /\ ctx[p].fn = "put" /\ ctx[p].pc = "copy"
  /\ LET rb == _rb[ctx[p].rbd]
         at == rb.buf.off + ctx[p].offset + ctx[p].i
     IN  /\ _rbmem' = [_rbmem EXCEPT ![at] = ctx[p].data[ctx[p].i + 1]]
         /\ ctx' = [ctx EXCEPT
                      ![p].i = ctx[p].i + 1,
                      ![p].pc = IF ctx[p].i + 1 >= rb.s_elem
                                THEN "inc_rd" ELSE "copy"]
  /\ UNCHANGED <<size_bits, _rb, idx, _rbd, status, init_call,
                 putSeq, gotSeq, recording, log>>
  /\ UNCHANGED poolVars

\* _rb[rbd].head++ : the volatile read ...
PutIncRead(p) ==
  /\ ctx[p].fn = "put" /\ ctx[p].pc = "inc_rd"
  /\ ctx' = [ctx EXCEPT ![p].head = _rb[ctx[p].rbd].head, ![p].pc = "inc_wr"]
  /\ UNCHANGED <<size_bits, _rb, idx, _rbd, _rbmem, status, init_call,
                 putSeq, gotSeq, recording, log>>
  /\ UNCHANGED poolVars

\* Mutant of PutIncWrite: put advances tail together with head.
PutIncWrite_moves_tail(p) ==
  /\ ctx[p].fn = "put" /\ ctx[p].pc = "inc_wr"
  /\ _rb' = [_rb EXCEPT ![ctx[p].rbd].head = SizeInc(ctx[p].head),
                        ![ctx[p].rbd].tail = SizeInc(_rb[ctx[p].rbd].tail)]
  /\ ctx' = [ctx EXCEPT ![p] =
               [IdleCtx EXCEPT !.fn = "put", !.rbd = ctx[p].rbd,
                               !.data = ctx[p].data, !.err = 0]]
  /\ putSeq' = Append(putSeq, ctx[p].data)
  /\ Logged(LogEntry("put", 0, ctx[p].data))
  /\ UNCHANGED <<size_bits, idx, _rbd, _rbmem, status, init_call,
                 gotSeq, recording>>
  /\ UNCHANGED poolVars

\* ... and the volatile write of head; ring_buffer_put returns err = 0.
PutIncWrite(p) ==
  /\ ctx[p].fn = "put" /\ ctx[p].pc = "inc_wr"
  /\ _rb' = [_rb EXCEPT ![ctx[p].rbd].head = SizeInc(ctx[p].head)]
  /\ ctx' = [ctx EXCEPT ![p] =
               [IdleCtx EXCEPT !.fn = "put", !.rbd = ctx[p].rbd,
                               !.data = ctx[p].data, !.err = 0]]
  /\ putSeq' = Append(putSeq, ctx[p].data)
  /\ Logged(LogEntry("put", 0, ctx[p].data))
  /\ UNCHANGED <<size_bits, idx, _rbd, _rbmem, status, init_call,
                 gotSeq, recording>>
  /\ UNCHANGED poolVars

\* -------------------------------------------------------- ring_buffer_get
\* Entry of ring_buffer_get(rbd, data): err = 0 and the test rbd < RING_BUFFER_MAX.
GetCall(p, rbd, data) ==
  /\ ctx[p].pc = "idle"
  /\ recording => Len(log) < MaxCalls
  /\ IF rbd < RING_BUFFER_MAX
     THEN /\ ctx' = [ctx EXCEPT ![p] =
                       [IdleCtx EXCEPT !.fn = "get", !.pc = "check",
                                       !.rbd = rbd, !.data = data]]
          /\ UNCHANGED log
     ELSE /\ ctx' = [ctx EXCEPT ![p] =
                       [IdleCtx EXCEPT !.fn = "get", !.rbd = rbd,
                                       !.data = data, !.err = -1]]
          /\ Logged(LogEntry("get", -1, <<>>))
  /\ UNCHANGED <<size_bits, _rb, idx, _rbd, _rbmem, status, init_call,
                 putSeq, gotSeq, recording>>
  /\ UNCHANGED poolVars

\* if (... && (_ring_buffer_empty(&_rb[rbd]) == 0)) { ... } else { err = -1; }
GetTest(p) ==
  /\ ctx[p].fn = "get" /\ ctx[p].pc = "check"
  /\ ctx[p].head # -1 /\ ctx[p].tail # -1
  /\ IF _ring_buffer_empty(ctx[p].head, ctx[p].tail) = 0
     THEN /\ ctx' = [ctx EXCEPT ![p].pc = "offset"]
          /\ UNCHANGED log
     ELSE /\ ctx' = [ctx EXCEPT ![p] =
                       [IdleCtx EXCEPT !.fn = "get", !.rbd = ctx[p].rbd,
                                       !.data = ctx[p].data, !.err = -1]]
          /\ Logged(LogEntry("get", -1, <<>>))
  /\ UNCHANGED <<size_bits, _rb, idx, _rbd, _rbmem, status, init_call,
                 putSeq, gotSeq, recording>>
  /\ UNCHANGED poolVars

\* Mutant of GetOffset: get goes on to tail++ without the memcpy.
GetOffset_skips_copy(p) ==
  /\ ctx[p].fn = "get" /\ ctx[p].pc = "offset"
  /\ ctx' = [ctx EXCEPT ![p].pc = "inc_rd"]
  /\ UNCHANGED <<size_bits, _rb, idx, _rbd, _rbmem, status, init_call,
                 putSeq, gotSeq, recording, log>>
  /\ UNCHANGED poolVars

\* const size_t offset = (_rb[rbd].tail & (_rb[rbd].n_elem - 1)) * _rb[rbd].s_elem;
GetOffset(p) ==
  /\ ctx[p].fn = "get" /\ ctx[p].pc = "offset"
  /\ LET rb == _rb[ctx[p].rbd] IN
       ctx' = [ctx EXCEPT
                 ![p].offset = ring_offset(rb.tail, rb.n_elem, rb.s_elem),
                 ![p].i = 0,
                 ![p].pc = IF rb.s_elem = 0 THEN "inc_rd" ELSE "copy"]
  /\ UNCHANGED <<size_bits, _rb, idx, _rbd, _rbmem, status, init_call,
                 putSeq, gotSeq, recording, log>>
  /\ UNCHANGED poolVars

\* memcpy(data, &(_rb[rbd].buf[offset]), _rb[rbd].s_elem), one byte a step
GetCopy(p) ==
  /\ ctx[p].fn = "get" /\ ctx[p].pc = "copy"
  /\ LET rb == _rb[ctx[p].rbd]
         at == rb.buf.off + ctx[p].offset + ctx[p].i
     IN  ctx' = [ctx EXCEPT
                   ![p].data[ctx[p].i + 1] = _rbmem[at],
                   ![p].i = ctx[p].i + 1,
                   ![p].pc = IF ctx[p].i + 1 >= rb.s_elem
                             THEN "inc_rd" ELSE "copy"]
  /\ UNCHANGED <<size_bits, _rb, idx, _rbd, _rbmem, status, init_call,
                 putSeq, gotSeq, recording, log>>
  /\ UNCHANGED poolVars

\* _rb[rbd].tail++ : the volatile read ...
GetIncRead(p) ==
  /\ ctx[p].fn = "get" /\ ctx[p].pc = "inc_rd"
  /\ ctx' = [ctx EXCEPT ![p].tail = _rb[ctx[p].rbd].tail, ![p].pc = "inc_wr"]
  /\ UNCHANGED <<size_bits, _rb, idx, _rbd, _rbmem, status, init_call,
                 putSeq, gotSeq, recording, log>>
  /\ UNCHANGED poolVars

\* ... and the volatile write of tail; ring_buffer_get returns err = 0.
GetIncWrite(p) ==
  /\ ctx[p].fn = "get" /\ ctx[p].pc = "inc_wr"
  /\ _rb' = [_rb EXCEPT ![ctx[p].rbd].tail = SizeInc(ctx[p].tail)]
  /\ ctx' = [ctx EXCEPT ![p] =
               [IdleCtx EXCEPT !.fn = "get", !.rbd = ctx[p].rbd,
                               !.data = ctx[p].data, !.err = 0]]
  /\ gotSeq' = Append(gotSeq, ctx[p].data)
  /\ Logged(LogEntry("get", 0, ctx[p].data))
  /\ UNCHANGED <<size_bits, idx, _rbd, _rbmem, status, init_call,
                 putSeq, recording>>
  /\ UNCHANGED poolVars

\* ------------------------------------------------------------ UART driver
\* rx_isr: ring_buffer_put(_rbd, &c) from the interrupt context.
RxIsr ==
  /\ status = 0
  /\ PutCall("producer", _rbd, Element(NextPayload, _rb[_rbd].s_elem))

\* uart_getchar: c = -1; ring_buffer_get(_rbd, &c) from the foreground.
UartGetchar ==
  /\ status = 0
  /\ GetCall("consumer", _rbd, Preset(_rb[_rbd].s_elem))

\* ------------------------------------------------------- specifications
\* Static storage before any call: _rb and _rbmem zeroed, idx = 0.
RingStatic(bits, rec) ==
  /\ size_bits = bits
  /\ _rb = [r \in 0..(RING_BUFFER_MAX - 1) |-> ZeroRingBuffer]
  /\ idx = 0
  /\ _rbd = 0
  /\ _rbmem = [a \in 0..(RBMEM_SIZE - 1) |-> 0]
  /\ status = -1
  /\ ctx = [p \in Contexts |-> IdleCtx]
  /\ init_call = [rbd |-> NULL, attr |-> NULL, idx |-> 0, err |-> 0]
  /\ putSeq = <<>>
  /\ gotSeq = <<>>
  /\ recording = rec
  /\ log = <<>>

AllIdle == \A p \in Contexts : ctx[p].pc = "idle"

\* The Pool, used from a single context.
PoolInit ==
  /\ \E N \in 1..MaxSize : PoolCtor(N)
  /\ RingStatic(CounterBits, FALSE)

SpecPool == PoolInit /\ [][PoolNext]_vars

\* One ring buffer between the interrupt context (put) and the foreground
\* (get); the steps of the two calls interleave freely.
Init == PoolCtor(1) /\ RingStatic(CounterBits, FALSE)

Next ==
  \/ UartInit
  \/ RxIsr
  \/ UartGetchar
  \/ \E p \in Contexts :
       \/ ReadHead(p) \/ ReadTail(p)
       \/ PutTest(p) \/ PutOffset(p) \/ PutCopy(p)
       \/ PutIncRead(p) \/ PutIncWrite(p)
       \/ GetTest(p) \/ GetOffset(p) \/ GetCopy(p)
       \/ GetIncRead(p) \/ GetIncWrite(p)

Spec == Init /\ [][Next]_vars

\* The steps of one context inside ring_buffer_put / ring_buffer_get.
CallSteps(p) ==
  \/ ReadHead(p) \/ ReadTail(p)
  \/ PutTest(p) \/ PutOffset(p) \/ PutCopy(p)
  \/ PutIncRead(p) \/ PutIncWrite(p)
  \/ GetTest(p) \/ GetOffset(p) \/ GetCopy(p)
  \/ GetIncRead(p) \/ GetIncWrite(p)

\* rx_isr while fewer than MaxLivePuts elements have been accepted.
LivePut == Len(putSeq) < MaxLivePuts /\ RxIsr

\* The interrupt context: it calls put again and again and runs its calls on.
ProducerRuns == LivePut \/ CallSteps("producer")

\* The foreground: it calls get again and again and runs its calls on.
ConsumerRuns == UartGetchar \/ CallSteps("consumer")

LiveInit == PoolCtor(1) /\ RingStatic(CounterBits, FALSE)

LiveNext ==
  \/ UartInit
  \/ LivePut
  \/ UartGetchar
  \/ \E p \in Contexts : CallSteps(p)

\* One producer and one consumer, both scheduled weakly fairly: a context
\* that can take a step is not held up forever.
SpecLive ==
  /\ LiveInit /\ [][LiveNext]_vars
  /\ WF_vars(ProducerRuns) /\ WF_vars(ConsumerRuns)

\* Sequential use of one ring buffer: a call starts only when no call is in
\* progress, and every completed call is logged.
SeqInit == PoolCtor(1) /\ RingStatic(CounterBits, TRUE)

SeqNext ==
  \/ UartInit
  \/ AllIdle /\ RxIsr
  \/ AllIdle /\ UartGetchar
  \/ \E p \in Contexts :
       \/ ReadHead(p) \/ ReadTail(p)
       \/ PutTest(p) \/ PutOffset(p) \/ PutCopy(p)
       \/ PutIncRead(p) \/ PutIncWrite(p)
       \/ GetTest(p) \/ GetOffset(p) \/ GetCopy(p)
       \/ GetIncRead(p) \/ GetIncWrite(p)

SpecSeq == SeqInit /\ [][SeqNext]_vars

\* The registry alone: ring_buffer_init called with any arguments.
RegInit == PoolCtor(1) /\ RingStatic(InitBits, FALSE)

RegNext == AnyInit

SpecInit == RegInit /\ [][RegNext]_vars

\* The UART ring buffer with a second context that also calls
\* ring_buffer_put on it: two writers, one reader.  The second writer's
\* payloads are numbered apart from the first's.
TwoUartInit ==
  /\ status # 0
  /\ \E n \in 0..MaxApiElems :
       InitCall(RbdAddr, Attr(RBMEM_ELEM_SIZE, n, RbmemAddr))

RxIsr2 ==
  /\ status = 0
  /\ PutCall("producer2", _rbd,
             Element(NextPayload + Pow2(BITS_IN_UINT8 - 1), _rb[_rbd].s_elem))

\* The calls of the two writers.
TwoPut1 == Len(putSeq) < MaxTwoPuts /\ RxIsr

TwoPut2 == Len(putSeq) < MaxTwoPuts /\ RxIsr2

TwoInit == PoolCtor(1) /\ RingStatic(CounterBits, FALSE)

TwoNext ==
  \/ TwoUartInit
  \/ TwoPut1
  \/ TwoPut2
  \/ UartGetchar
  \/ \E p \in Contexts :
       \/ ReadHead(p) \/ ReadTail(p)
       \/ PutTest(p) \/ PutOffset(p) \/ PutCopy(p)
       \/ PutIncRead(p) \/ PutIncWrite(p)
       \/ GetTest(p) \/ GetOffset(p) \/ GetCopy(p)
       \/ GetIncRead(p) \/ GetIncWrite(p)

SpecTwoProducers == TwoInit /\ [][TwoNext]_vars

\* The library used by any caller: ring buffers of one-byte elements over
\* the two halves of _rbmem, initialised before the first call of put or
\* get; then put and get called with any descriptor 0..RING_BUFFER_MAX
\* (issued, not issued or out of range), put from one context and get from
\* another, their steps interleaving freely.
RegionSize == RBMEM_SIZE \div 2

RegionAddr(r) == [base |-> "_rbmem", off |-> RegionSize * r]

\* Bytes of the element a caller passes for descriptor rbd.
ElemLen(rbd) ==
  IF rbd < RING_BUFFER_MAX /\ _rb[rbd].s_elem > 0 THEN _rb[rbd].s_elem ELSE 1

ApiInit ==
  \E n \in 0..MaxApiElems :
    /\ RBMEM_ELEM_SIZE * n <= RegionSize
    /\ RegionAddr(idx).off < RBMEM_SIZE
    /\ ctx = [p \in Contexts |-> IdleCtx]
    /\ InitCall(RbdAddr, Attr(RBMEM_ELEM_SIZE, n, RegionAddr(idx)))

ApiPut ==
  \E rbd \in 0..RING_BUFFER_MAX :
    /\ Len(putSeq) < MaxApiPuts
    /\ PutCall("producer", rbd, Element(NextPayload, ElemLen(rbd)))

ApiGet ==
  \E rbd \in 0..RING_BUFFER_MAX :
    /\ ctx["consumer"].pc = "idle"
    /\ GetCall("consumer", rbd, Preset(ElemLen(rbd)))

ApiStart == PoolCtor(1) /\ RingStatic(CounterBits, FALSE)

ApiNext ==
  \/ ApiInit
  \/ ApiPut
  \/ ApiGet
  \/ \E p \in Contexts :
       \/ ReadHead(p) \/ ReadTail(p)
       \/ PutTest(p) \/ PutOffset(p) \/ PutCopy(p)
       \/ PutIncRead(p) \/ PutIncWrite(p)
       \/ GetTest(p) \/ GetOffset(p) \/ GetCopy(p)
       \/ GetIncRead(p) \/ GetIncWrite(p)

SpecApi == ApiStart /\ [][ApiNext]_vars

\* ------------------------------------------------------- Pool: derived sets
\* Slots whose info bit is set (free).
FreeBits == {i \in 0..(SIZE - 1) : testBit(info, i)}

\* ------------------------------------------------------------ Pool: claims

\* C3: after any sequence of palloc()/free(p) calls, free_elements_cnt is
\* within [0, SIZE] and equals the number of slots whose info bit is set.
\* (Stated as claimed; free() of an already free slot address breaks it.)
C3_CountEqualsFreeBits ==
  /\ free_elements_cnt \in 0..SIZE
  /\ free_elements_cnt = Cardinality(FreeBits)

\* C4: free(p) leaves the info bits and size() unchanged whenever p is NULL,
\* an address the pool never issued, or the address of a slot that is
\* already free.  (Stated as claimed; the double free increments size().)
C4_InvalidFreeIgnored ==
  [][(call'.fn = "free" /\ ~call'.was_allocated)
       => (info' = info /\ size' = size)]_vars

\* C5: palloc() never returns the address of a slot that is currently
\* allocated, every non-null result is the address of one of the SIZE slots,
\* and the first SIZE palloc() calls on a fresh pool return pairwise distinct
\* addresses.
C5_PallocNeverReissues ==
  /\ [](only_palloc /\ fresh_pallocs <= SIZE
          => Cardinality(allocated) = fresh_pallocs)
  /\ [][(call'.fn = "palloc" /\ call'.ret # NULL)
          => /\ \E i \in 0..(SIZE - 1) : call'.ret = ElementAddr(i)
             /\ SlotOf(call'.ret) \notin allocated]_vars

\* C5 witness: a palloc() that succeeded while other slots were allocated,
\* after slots had been freed (also freed twice).
C5_Witness ==
  /\ call.fn = "palloc" /\ call.ret # NULL
  /\ ~only_palloc
  /\ Cardinality(allocated) >= 2
  /\ free_elements_cnt > Cardinality(FreeBits)

\* C6: a fresh pool has size() = SIZE; each of the first SIZE palloc() calls
\* succeeds and lowers size() by one; every further palloc() returns NULL
\* and size() stays 0.
C6_FreshPoolDrains ==
  only_palloc =>
    /\ size = (IF fresh_pallocs <= SIZE THEN SIZE - fresh_pallocs ELSE 0)
    /\ fresh_pallocs >= 1 =>
         /\ call.fn = "palloc"
         /\ (call.ret # NULL) <=> (fresh_pallocs <= SIZE)

\* C6 witness: the second palloc() after the pool (of more than one info
\* byte) ran empty.
C6_Witness ==
  /\ only_palloc /\ SIZE > BITS_IN_UINT8
  /\ fresh_pallocs = SIZE + 2
  /\ call.ret = NULL /\ size = 0

\* C7: free(p) of a currently allocated slot raises size() by exactly one,
\* sets exactly that slot's bit, and palloc() returns p again once no lower
\* slot is free.
C7_FreeOfAllocatedSlot ==
  [][(call'.fn = "free" /\ call'.was_allocated)
       => LET i == SlotOf(call'.arg) IN
            /\ size' = size + 1
            /\ testBit(info', i)
            /\ \A j \in (0..(SIZE - 1)) \ {i} :
                 testBit(info', j) = testBit(info, j)
            /\ (\A j \in 0..(i - 1) : ~testBit(info', j))
                 => palloc(info', free_elements_cnt').ret = call'.arg]_vars

\* C7 witness: right after free(p) of an allocated slot in the second info
\* byte, the next palloc() would return p.
C7_Witness ==
  /\ call.fn = "free" /\ call.was_allocated
  /\ SlotOf(call.arg) >= BITS_IN_UINT8
  /\ palloc(info, free_elements_cnt).ret = call.arg

\* C8: a successful palloc() returns the slot of lowest index among the
\* slots that are free at the call.
C8_LowestFreeIndex ==
  [][(call'.fn = "palloc" /\ call'.ret # NULL)
       => LET i == SlotOf(call'.ret) IN
            /\ i \in (0..(SIZE - 1)) \ allocated
            /\ \A j \in 0..(i - 1) : j \in allocated]_vars

\* C8 witness: in a pool of four slots, slots 2 and 0 were freed, 1 and 3
\* stayed allocated, and palloc() has returned slot 0.
C8_Witness ==
  /\ SIZE = 4 /\ ~only_palloc
  /\ call.fn = "palloc" /\ call.ret = ElementAddr(0)
  /\ allocated = {0, 1, 3}

\* ----------------------------------------------------- ring buffer: claims
\* s is a prefix of t
IsPrefix(s, t) ==
  /\ Len(s) <= Len(t)
  /\ \A k \in 1..Len(s) : s[k] = t[k]

\* The ring buffer the UART driver uses.
Rb == _rb[_rbd]

\* C1: with one producer and one consumer, under every interleaving of the
\* steps of put and get, the elements returned by successful get calls are
\* a prefix of the elements accepted by successful put calls.
C1_FifoPrefix == IsPrefix(gotSeq, putSeq)

\* C1 witness: both contexts are in the middle of their memcpy of a two-byte
\* element, after head has wrapped past 2^CounterBits and tail has not.
C1_Witness ==
  /\ status = 0 /\ Rb.s_elem = 2 /\ Rb.n_elem > 1
  /\ ctx["producer"].pc = "copy" /\ ctx["producer"].i = 1
  /\ ctx["consumer"].pc = "copy" /\ ctx["consumer"].i = 1
  /\ Rb.head < Rb.tail
  /\ Len(gotSeq) >= 2 /\ IsPrefix(gotSeq, putSeq)

\* C2: in every reachable state of an initialised ring buffer, the modular
\* difference head - tail is within 0..n_elem.
C2_OccupancyBound ==
  \A r \in 0..(idx - 1) :
    SizeSub(_rb[r].head, _rb[r].tail) \in 0..(_rb[r].n_elem)

\* C2 witness: a put was rejected on a full buffer of four elements whose
\* head has wrapped, while the consumer is inside get.
C2_Witness ==
  /\ status = 0 /\ Rb.n_elem = 4
  /\ Rb.head < Rb.tail /\ SizeSub(Rb.head, Rb.tail) = Rb.n_elem
  /\ ctx["producer"].fn = "put" /\ ctx["producer"].pc = "idle"
  /\ ctx["producer"].err = -1
  /\ ctx["consumer"].pc = "inc_wr"

\* The log of the scenario of C9 on a ring buffer of C elements of s bytes:
\* C puts accepted, one rejected, C gets in insertion order, one get
\* rejected, one more put accepted.
ScenarioLog(C, s) ==
  [k \in 1..(2 * C + 3) |->
     IF k <= C THEN LogEntry("put", 0, Element(k, s))
     ELSE IF k = C + 1 THEN LogEntry("put", -1, Element(C + 1, s))
     ELSE IF k <= 2 * C + 1 THEN LogEntry("get", 0, Element(k - (C + 1), s))
     ELSE IF k = 2 * C + 2 THEN LogEntry("get", -1, <<>>)
     ELSE LogEntry("put", 0, Element(C + 2, s))]

\* C9: used sequentially from empty, a ring buffer of capacity C accepts C
\* puts, rejects the (C+1)-th, returns the C payloads in insertion order,
\* rejects a further get and then accepts a put again: as long as the calls
\* made follow the scenario, their results are the scenario's results.
C9_SequentialScenario ==
  (status = 0 /\ Rb.n_elem >= 1) =>
    LET E == ScenarioLog(Rb.n_elem, Rb.s_elem)
        m == IF Len(log) <= Len(E) THEN Len(log) ELSE Len(E)
    IN  (\A k \in 1..m : log[k].fn = E[k].fn) => (\A k \in 1..m : log[k] = E[k])

\* C9 witness: the whole scenario for C = 4 (a, b, c, d accepted, e rejected,
\* a, b, c, d read back, fifth get rejected, f accepted), on one-byte elements.
C9_Witness ==
  /\ status = 0 /\ Rb.n_elem = 4 /\ Rb.s_elem = 1
  /\ log = ScenarioLog(4, 1)
  /\ putSeq = <<Element(1, 1), Element(2, 1), Element(3, 1), Element(4, 1),
                Element(6, 1)>>

\* C10: with non-null rbd, attr and buffer, element size > 0 and free
\* registry capacity, ring_buffer_init returns 0 exactly for the element
\* counts 1, 2, 4, 8, 16 among 0..16 and -1 for every other.  (Stated as
\* claimed; the element count 0 is accepted.)
C10_InitIffPowerOfTwo ==
  (/\ init_call.rbd # NULL /\ init_call.attr # NULL
   /\ init_call.attr.buffer # NULL /\ init_call.attr.s_elem > 0
   /\ init_call.idx < RING_BUFFER_MAX
   /\ init_call.attr.n_elem \in 0..16)
  => /\ init_call.err \in {0, -1}
     /\ (init_call.err = 0) <=> (init_call.attr.n_elem \in {1, 2, 4, 8, 16})

\* C11: over any sequence of ring_buffer_init calls, idx never decreases and
\* never exceeds RING_BUFFER_MAX; a successful call stores the old idx in
\* *rbd, advances idx by one and touches no other entry (so the descriptors
\* issued are 0, 1, 2, ... each once); a failed call returns -1 and leaves
\* idx, *rbd and every _rb entry unchanged.
C11_InitRegistry ==
  [][/\ idx' >= idx /\ idx' <= RING_BUFFER_MAX
     /\ init_call'.err \in {0, -1}
     /\ (init_call'.err = 0) =>
          /\ _rbd' = idx /\ idx' = idx + 1
          /\ \A r \in 0..(RING_BUFFER_MAX - 1) : r # idx => _rb'[r] = _rb[r]
     /\ (init_call'.err = -1) =>
          /\ idx' = idx /\ _rbd' = _rbd /\ _rb' = _rb]_vars

\* C11 witness: the registry is full, every descriptor 0..RING_BUFFER_MAX-1
\* is issued, and one more call with valid arguments has failed.
C11_Witness ==
  /\ idx = RING_BUFFER_MAX /\ _rbd = RING_BUFFER_MAX - 1
  /\ \A r \in 0..(RING_BUFFER_MAX - 1) : _rb[r].buf = RbmemAddr
  /\ init_call.idx = RING_BUFFER_MAX /\ init_call.err = -1
  /\ init_call.rbd = RbdAddr /\ init_call.attr = Attr(1, 4, RbmemAddr)

\* The step of context p is taken inside a call (or enters one).
StepOf(p) == ctx'[p] # ctx[p]

\* The step of context p returns err from fn.
Returns(p, fn, err) ==
  /\ StepOf(p) /\ ctx'[p].pc = "idle"
  /\ ctx'[p].fn = fn /\ ctx'[p].err = err

\* Context p evaluates the full / empty test on values of head and tail that
\* are still the current ones.
TestsCurrent(p, fn) ==
  /\ StepOf(p) /\ ctx[p].fn = fn /\ ctx[p].pc = "check" /\ ctx'[p].pc # "check"
  /\ ctx[p].head = _rb[ctx[p].rbd].head
  /\ ctx[p].tail = _rb[ctx[p].rbd].tail

\* C12: a put or get that returns -1 (descriptor >= RING_BUFFER_MAX, buffer
\* full, buffer empty) has changed neither head, tail nor any other field of
\* any ring buffer, nor the backing memory, and a failed get leaves the
\* caller's element at its preset value; every call with a descriptor
\* >= RING_BUFFER_MAX returns -1 at once; with a descriptor in range put
\* returns -1 exactly when head - tail = n_elem and get exactly when
\* head - tail = 0.
C12_FailedCalls ==
  [][\A p \in Contexts :
       /\ (StepOf(p) /\ ctx[p].pc \in {"idle", "check"}) =>
            /\ _rb' = _rb /\ _rbmem' = _rbmem
            /\ ctx[p].pc = "check" => ctx'[p].data = ctx[p].data
       /\ (StepOf(p) /\ ctx'[p].pc = "idle" /\ ctx'[p].err = -1) =>
            /\ ctx[p].pc \in {"idle", "check"}
            /\ ctx'[p].fn = "get" =>
                 ctx'[p].data = Preset(Len(ctx'[p].data))
       /\ (StepOf(p) /\ ctx[p].pc = "idle") =>
            (ctx'[p].rbd >= RING_BUFFER_MAX <=>
               (ctx'[p].pc = "idle" /\ ctx'[p].err = -1))
       /\ TestsCurrent(p, "put") =>
            LET rb == _rb[ctx[p].rbd] IN
              /\ Returns(p, "put", -1) <=> SizeSub(rb.head, rb.tail) = rb.n_elem
              /\ ~Returns(p, "put", -1) => ctx'[p].pc = "offset"
       /\ TestsCurrent(p, "get") =>
            LET rb == _rb[ctx[p].rbd] IN
              /\ Returns(p, "get", -1) <=> SizeSub(rb.head, rb.tail) = 0
              /\ ~Returns(p, "get", -1) => ctx'[p].pc = "offset"]_vars

\* C12 witness: a get on an issued ring buffer that has been filled and
\* drained again has returned -1 with the caller's byte still at its preset
\* value, and a put with descriptor RING_BUFFER_MAX has returned -1.
C12_Witness ==
  /\ ctx["consumer"].fn = "get" /\ ctx["consumer"].pc = "idle"
  /\ ctx["consumer"].err = -1 /\ ctx["consumer"].data = Preset(1)
  /\ ctx["consumer"].rbd < idx
  /\ LET rb == _rb[ctx["consumer"].rbd] IN
       rb.n_elem = 2 /\ rb.head = 2 /\ rb.tail = 2
  /\ ctx["producer"].fn = "put" /\ ctx["producer"].pc = "idle"
  /\ ctx["producer"].err = -1 /\ ctx["producer"].rbd = RING_BUFFER_MAX

\* Byte i of the slot of logical position pos of ring buffer r.
SlotByte(r, pos, i) ==
  _rbmem[_rb[r].buf.off + ring_offset(pos, _rb[r].n_elem, _rb[r].s_elem) + i]

\* C13: put copies the element before it increments head, so in every state
\* each logical position in [tail, head) holds the complete payload of the
\* put that filled it (the k-th position after tail holds the k-th accepted
\* element not yet returned), and every byte the consumer's memcpy reads is
\* a byte of that payload.
C13_PublishedSlotsComplete ==
  /\ [](status = 0 =>
          \A k \in 0..(SizeSub(Rb.head, Rb.tail) - 1) :
            \A i \in 0..(Rb.s_elem - 1) :
              SlotByte(_rbd, (Rb.tail + k) % SizeMod, i)
                = putSeq[Len(gotSeq) + k + 1][i + 1])
  /\ [][\A p \in Contexts :
          (StepOf(p) /\ ctx[p].fn = "get" /\ ctx[p].pc = "copy") =>
            ctx'[p].data[ctx[p].i + 1]
              = putSeq[Len(gotSeq) + 1][ctx[p].i + 1]]_vars

\* C13 witness: the producer has written the first of the two bytes of an
\* element into the slot at head (the second byte there is still an old
\* one) while the consumer is copying the element at tail.
C13_Witness ==
  /\ status = 0 /\ Rb.s_elem = 2 /\ Rb.n_elem = 2
  /\ SizeSub(Rb.head, Rb.tail) = 1 /\ Rb.tail > 2
  /\ ctx["producer"].pc = "copy" /\ ctx["producer"].i = 1
  /\ SlotByte(_rbd, Rb.head, 1) # ctx["producer"].data[2]
  /\ ctx["consumer"].pc = "copy" /\ ctx["consumer"].i = 1

\* The addresses in _rbmem of the slots of the logical positions [tail, head)
\* of ring buffer r.
LiveAddrs(r) ==
  {_rb[r].buf.off
     + ring_offset((_rb[r].tail + k) % SizeMod, _rb[r].n_elem, _rb[r].s_elem)
     + i : k \in 0..(SizeSub(_rb[r].head, _rb[r].tail) - 1),
           i \in 0..(_rb[r].s_elem - 1)}

\* C14: get copies the element out before it increments tail, so when tail
\* is incremented the caller holds the complete oldest element, and no byte
\* the producer's memcpy writes lies in a slot of [tail, head), whatever the
\* consumer is doing.
C14_NoLiveSlotOverwritten ==
  [][\A p \in Contexts :
       /\ (StepOf(p) /\ ctx[p].fn = "put" /\ ctx[p].pc = "copy") =>
            LET at == _rb[ctx[p].rbd].buf.off + ctx[p].offset + ctx[p].i IN
              /\ _rbmem'[at] = ctx[p].data[ctx[p].i + 1]
              /\ at \notin LiveAddrs(ctx[p].rbd)
       /\ (StepOf(p) /\ ctx[p].fn = "get" /\ ctx[p].pc = "inc_wr") =>
            /\ ctx[p].data = putSeq[Len(gotSeq) + 1]
            /\ _rb'[ctx[p].rbd].tail = SizeInc(_rb[ctx[p].rbd].tail)]_vars

\* C14 witness: the consumer has copied the oldest element out and not yet
\* incremented tail, and the producer, which found one slot free, is in the
\* middle of writing it; after its head++ the buffer is full.
C14_Witness ==
  /\ status = 0 /\ Rb.s_elem = 2 /\ Rb.n_elem = 2
  /\ SizeSub(Rb.head, Rb.tail) = 1 /\ Rb.head = 0
  /\ ctx["consumer"].pc = "inc_rd"
  /\ ctx["consumer"].data = putSeq[Len(gotSeq) + 1]
  /\ ctx["producer"].pc = "copy" /\ ctx["producer"].i = 1

\* The part of _rbmem ring buffer r uses.
BufAddrs(r) ==
  {_rb[r].buf.off + a : a \in 0..(_rb[r].n_elem * _rb[r].s_elem - 1)}

\* The step leaves s_elem, n_elem and buf of every ring buffer, and every
\* field of every ring buffer other than rbd, as they are.
KeepsConfig(rbd) ==
  \A r \in 0..(RING_BUFFER_MAX - 1) :
    /\ _rb'[r].s_elem = _rb[r].s_elem
    /\ _rb'[r].n_elem = _rb[r].n_elem
    /\ _rb'[r].buf = _rb[r].buf
    /\ r # rbd => _rb'[r] = _rb[r]

\* C15: every step of put leaves tail unchanged and writes no memory outside
\* its ring buffer's own buffer; every step of get leaves head and the
\* buffer contents unchanged; neither changes s_elem, n_elem, buf or any
\* field of another ring buffer.
C15_Frame ==
  [][\A p \in Contexts :
       /\ (StepOf(p) /\ ctx'[p].fn = "put") =>
            /\ \A r \in 0..(RING_BUFFER_MAX - 1) : _rb'[r].tail = _rb[r].tail
            /\ \A a \in 0..(RBMEM_SIZE - 1) :
                 _rbmem'[a] # _rbmem[a] => a \in BufAddrs(ctx'[p].rbd)
            /\ KeepsConfig(ctx'[p].rbd)
       /\ (StepOf(p) /\ ctx'[p].fn = "get") =>
            /\ \A r \in 0..(RING_BUFFER_MAX - 1) : _rb'[r].head = _rb[r].head
            /\ _rbmem' = _rbmem
            /\ KeepsConfig(ctx'[p].rbd)]_vars

\* C15 witness: two ring buffers are in use, each holds an accepted element;
\* the producer is about to write head of the second while the consumer is
\* about to write tail of the first.
C15_Witness ==
  /\ idx = 2 /\ _rb[0].n_elem = 2 /\ _rb[1].n_elem = 2
  /\ _rb[0].head = 1 /\ _rb[0].tail = 0
  /\ _rb[1].head = 1 /\ _rb[1].tail = 0
  /\ ctx["producer"].pc = "inc_wr" /\ ctx["producer"].rbd = 1
  /\ ctx["consumer"].pc = "inc_wr" /\ ctx["consumer"].rbd = 0

\* The counters of the UART driver's ring buffer as unbounded integers: the
\* numbers of elements accepted and returned so far.
HeadCount == Len(putSeq)

TailCount == Len(gotSeq)

\* counter & (n_elem - 1) on an unbounded counter
WideIndex(counter, n_elem) ==
  BitAnd(counter, n_elem - 1, size_bits + size_bits)

\* C16: head and tail are the unbounded counts modulo 2^size_bits, and in
\* every reachable state the full test, the empty test and the slot indices
\* computed on the wrapped counters are the ones the unbounded counts give,
\* also while head has wrapped and tail has not; the occupancy stays within
\* 0..n_elem and the elements returned are a prefix of those accepted.
C16_WrapAgreesWithUnbounded ==
  status = 0 =>
    /\ Rb.head = HeadCount % SizeMod /\ Rb.tail = TailCount % SizeMod
    /\ (_ring_buffer_full(Rb.head, Rb.tail, Rb.n_elem) = 1)
         <=> (HeadCount - TailCount = Rb.n_elem)
    /\ (_ring_buffer_empty(Rb.head, Rb.tail) = 1)
         <=> (HeadCount - TailCount = 0)
    /\ Rb.n_elem >= 1 =>
         /\ SizeAnd(Rb.head, SizeSub(Rb.n_elem, 1))
              = WideIndex(HeadCount, Rb.n_elem)
         /\ SizeAnd(Rb.tail, SizeSub(Rb.n_elem, 1))
              = WideIndex(TailCount, Rb.n_elem)
    /\ HeadCount - TailCount \in 0..(Rb.n_elem)
    /\ IsPrefix(gotSeq, putSeq)

\* C16 witness: nine elements accepted and five returned on a buffer of four:
\* head has wrapped to 1, tail is still 5, and the buffer is full.
C16_Witness ==
  /\ status = 0 /\ Rb.n_elem = 4
  /\ HeadCount = SizeMod + 1 /\ TailCount = SizeMod - 3
  /\ Rb.head = 1 /\ Rb.tail = SizeMod - 3
  /\ _ring_buffer_full(Rb.head, Rb.tail, Rb.n_elem) = 1

\* More elements between tail and head than the buffer has slots.
OverCapacity == SizeSub(Rb.head, Rb.tail) > Rb.n_elem

\* head has advanced less often than put has returned 0.
ElementLost == Rb.head # HeadCount % SizeMod

\* A slot of [tail, head) does not hold the element accepted for it.
ElementOverwritten ==
  \E k \in 0..(SizeSub(Rb.head, Rb.tail) - 1) :
    \/ TailCount + k + 1 > HeadCount
    \/ \E i \in 0..(Rb.s_elem - 1) :
         SlotByte(_rbd, (Rb.tail + k) % SizeMod, i)
           # putSeq[TailCount + k + 1][i + 1]

\* C17: the single-producer assumption is necessary.  With two contexts
\* calling put on the same ring buffer, the occupancy exceeds n_elem, or an
\* accepted element is lost or overwritten, only in states where both of
\* them have called put; such states are reachable (C17_Witness).
C17_SecondProducerBreaks ==
  (status = 0 /\ (OverCapacity \/ ElementLost \/ ElementOverwritten)) =>
    (ctx["producer"].fn = "put" /\ ctx["producer2"].fn = "put")

\* C17 witness: on a ring buffer of one element both producers found it
\* empty, both wrote slot 0 and both incremented head: put returned 0
\* twice, head - tail is 2, and the first writer's element is overwritten.
C17_Witness ==
  /\ status = 0 /\ Rb.n_elem = 1
  /\ ctx["producer"].fn = "put" /\ ctx["producer"].pc = "idle"
  /\ ctx["producer"].err = 0
  /\ ctx["producer2"].fn = "put" /\ ctx["producer2"].pc = "idle"
  /\ ctx["producer2"].err = 0
  /\ Rb.tail = 0 /\ Rb.head = 2 /\ OverCapacity
  /\ putSeq = <<ctx["producer"].data, ctx["producer2"].data>>
  /\ SlotByte(_rbd, 0, 0) = ctx["producer2"].data[1]
  /\ ElementOverwritten

\* The descriptors below RING_BUFFER_MAX that ring_buffer_init has not issued.
NotIssued == idx..(RING_BUFFER_MAX - 1)

\* C19: the _rb entry of a descriptor below RING_BUFFER_MAX that was never
\* issued is still zero (n_elem = 0, head = tail = 0), so it is full and
\* empty at once, and a put or get on it goes through the full / empty test,
\* returns -1 and changes neither _rb, _rbmem, idx nor the caller's element.
C19_NotIssuedDescriptor ==
  /\ [](\A r \in NotIssued :
          /\ _rb[r] = [s_elem |-> 0, n_elem |-> 0, buf |-> NULL,
                       head |-> 0, tail |-> 0]
          /\ _ring_buffer_full(_rb[r].head, _rb[r].tail, _rb[r].n_elem) = 1
          /\ _ring_buffer_empty(_rb[r].head, _rb[r].tail) = 1)
  /\ [][\A p \in Contexts :
          (StepOf(p) /\ ctx'[p].rbd \in NotIssued) =>
            /\ ctx'[p].pc \in {"check", "idle"}
            /\ ctx'[p].pc = "idle" => ctx'[p].err = -1
            /\ ctx'[p].fn = "get" => ctx'[p].data = Preset(Len(ctx'[p].data))
            /\ UNCHANGED <<_rb, _rbmem, idx, _rbd, putSeq, gotSeq>>]_vars

\* C19 witness: descriptor 0 is issued and holds an element, descriptor 1 is
\* not issued; a put and a get on descriptor 1 have both returned -1.
C19_Witness ==
  /\ idx = 1 /\ RING_BUFFER_MAX > 1
  /\ _rb[0].n_elem = 2 /\ _rb[0].head = 1 /\ _rb[0].tail = 0
  /\ ctx["producer"].fn = "put" /\ ctx["producer"].pc = "idle"
  /\ ctx["producer"].rbd = 1 /\ ctx["producer"].err = -1
  /\ ctx["consumer"].fn = "get" /\ ctx["consumer"].pc = "idle"
  /\ ctx["consumer"].rbd = 1 /\ ctx["consumer"].err = -1
  /\ ctx["consumer"].data = Preset(1)

\* The UART ring buffer is initialised with at least one element.
InUse == status = 0 /\ Rb.n_elem >= 1

\* C20: on an initialised ring buffer with n_elem >= 1, a context inside put
\* or get can always take its next step, whatever the other context does,
\* and its call returns; with both contexts weakly fair, a put that was
\* rejected is followed by an accepted put, and every element accepted is
\* eventually returned by a get.
C20_NoBlockingAndProgress ==
  /\ [](InUse => \A p \in {"producer", "consumer"} :
                   ctx[p].pc # "idle" => ENABLED CallSteps(p))
  /\ \A p \in {"producer", "consumer"} :
       (InUse /\ ctx[p].pc # "idle") ~> (ctx[p].pc = "idle")
  /\ (InUse /\ ctx["producer"].pc = "idle" /\ ctx["producer"].fn = "put"
             /\ ctx["producer"].err = -1)
       ~> (ctx["producer"].pc = "idle" /\ ctx["producer"].err = 0)
  /\ \A k \in 1..MaxLivePuts :
       (InUse /\ Len(putSeq) >= k) ~> (Len(gotSeq) >= k)

\* C20 witness: a put was rejected on a full buffer of two elements (five
\* accepted, three returned so far) and the consumer is inside a get.
C20_Witness ==
  /\ InUse /\ Rb.n_elem = 2 /\ SizeSub(Rb.head, Rb.tail) = 2
  /\ Len(putSeq) = 5 /\ Len(gotSeq) = 3
  /\ ctx["producer"].pc = "idle" /\ ctx["producer"].fn = "put"
  /\ ctx["producer"].err = -1
  /\ ctx["consumer"].fn = "get" /\ ctx["consumer"].pc = "check"

\* --------------------------------------------------- Pool: further claims

\* C18: palloc() returns NULL only when no slot is free: a call made while
\* size() > 0 returns a non-null address, a call made while size() = 0
\* returns NULL.  (Stated as claimed; after a free() of an already free slot
\* size() overstates the free slots and palloc() returns NULL with
\* size() > 0.)
C18_NullOnlyWhenEmpty ==
  [][(call'.fn = "palloc") =>
       /\ (size > 0) => (call'.ret # NULL)
       /\ (size = 0) => (call'.ret = NULL)]_vars

====
